---------------------------- MODULE Spec2Model ----------------------------
(***************************************************************************)
(* The zoho-desk-worker: an edge HTTP handler that receives support-ticket *)
(* submissions on POST /tickets, obtains an access token from the          *)
(* ZOHO_OAUTH_WORKER binding and forwards the ticket to the Zoho Desk      *)
(* /api/v1/tickets endpoint.                                               *)
(*                                                                         *)
(* The repository holds three revisions of the handler:                    *)
(*   "waitUntil"   src/unnamed/part_000: ctx.waitUntil(handleTicket...),   *)
(*                 no CORS handling, plain-text description;               *)
(*   "fixedOrigin" src/src/index.ts lines 1-157: await handleTicket...,    *)
(*                 one fixed ALLOWED_ORIGIN;                               *)
(*   "originList"  src/src/index.ts lines 160-333: await handleTicket...,  *)
(*                 ALLOWED_ORIGINS checked against the Origin header.      *)
(* The revision is fixed at Init; every action is the translation of one   *)
(* synchronous segment of the code (from one await to the next).           *)
(***************************************************************************)
EXTENDS Integers, Sequences, FiniteSets, TLC

\* How many requests one behaviour serves, one after the other.
MaxRequests == 2

Revisions == {"waitUntil", "fixedOrigin", "originList"}

\* The revisions whose fetch awaits handleTicketCreation before it responds.
AwaitRevisions == {"fixedOrigin", "originList"}

-----------------------------------------------------------------------------
(* Values *)

\* A header that is not set (Headers.get returns null).
NoHeader == "<absent>"

\* src/src/index.ts:31
ALLOWED_ORIGIN == "https://misthub.com"

\* src/src/index.ts:191-199
ALLOWED_ORIGINS ==
    << "https://misthub.com",
       "https://ejuices.com",
       "https://www.ejuices.com",
       "https://eliquid.com",
       "https://www.eliquid.com",
       "https://ejuices.co",
       "https://www.ejuices.co" >>

\* The allow-list a revision configures; the fixed-origin revision has one entry.
AllowList(rev) ==
    IF rev = "originList" THEN ALLOWED_ORIGINS
    ELSE IF rev = "fixedOrigin" THEN << ALLOWED_ORIGIN >>
    ELSE << >>

InList(x, list) == \E i \in 1..Len(list) : list[i] = x

\* Array.prototype.includes on ALLOWED_ORIGINS
Includes(list, x) == InList(x, list)

\* A JavaScript string is truthy unless it is empty; null/undefined are falsy.
Truthy(s) == s /= NoHeader /\ s /= ""

\* A body: text that is JSON (a value, serialised compactly or not), other
\* text, or no body at all.
NullBody == [kind |-> "null", value |-> << >>, compact |-> TRUE]
TextBody(t) == [kind |-> "text", value |-> << t >>, compact |-> TRUE]

\* JSON.stringify: the compact serialisation of a value.
JsonStringify(v) == [kind |-> "json", value |-> v, compact |-> TRUE]

\* Body.json(): parsing succeeds on JSON text only.
JsonParses(body) == body.kind = "json"
JsonParse(body) == body.value

\* A thrown value: an Error with a message, or something that is no Error.
Thrown(isErr, msg) == [isError |-> isErr, message |-> msg]
NoThrown == Thrown(FALSE, "")

\* error instanceof Error ? error.message : 'Unknown error'
ErrorMessage(e) == IF e.isError THEN e.message ELSE "Unknown error"

\* A response: status, body and the headers the handler sets.
Resp(st, b, ct) ==
    [status |-> st, body |-> b, contentType |-> ct,
     acao |-> NoHeader, allowMethods |-> NoHeader,
     allowHeaders |-> NoHeader, maxAge |-> NoHeader]
NoResponse == Resp(0, NullBody, NoHeader)

\* Statuses that must not carry a body (Fetch standard, "null body status").
NullBodyStatus(st) == st \in {101, 204, 205, 304}

\* new Response(body, {status}) throws a RangeError for a status outside
\* 200..599 and a TypeError for a body on a null body status.
ResponseCtorThrows(st, b) ==
    \/ st < 200
    \/ st > 599
    \/ (NullBodyStatus(st) /\ b.kind /= "null")

ResponseCtorError(st, b) ==
    IF st < 200 \/ st > 599
    THEN Thrown(TRUE, "RangeError: invalid status")
    ELSE Thrown(TRUE, "TypeError: response with null body status cannot have body")

-----------------------------------------------------------------------------
(* Inputs *)

Methods == {"POST", "GET", "OPTIONS"}
Paths == {"/tickets", "/health"}

\* Origin header values: absent, empty, two list entries (the first and another),
\* and one origin that is in no list.
Origins ==
    {NoHeader, "", "https://misthub.com", "https://www.eliquid.com",
     "https://evil.example"}

\* orderNumber?: string  -- absent, empty, or a number
OrderNumbers == {NoHeader, "", "SO-1001"}
Details == {"item arrived broken"}

\* The request body: unparsable text, the JSON value null, or a TicketData object.
InvalidJsonBody ==
    [kind |-> "invalid", store |-> "", name |-> "", email |-> "", subject |-> "",
     orderNumber |-> NoHeader, details |-> "", departmentId |-> ""]
NullJsonBody == [InvalidJsonBody EXCEPT !.kind = "jsonNull"]
TicketBodies ==
    {[kind |-> "object", store |-> "A", name |-> "Jane", email |-> "jane@x.com",
      subject |-> "Broken item", orderNumber |-> o, details |-> d,
      departmentId |-> "12"] : o \in OrderNumbers, d \in Details}
RequestBodies == {InvalidJsonBody, NullJsonBody} \cup TicketBodies

Requests ==
    [method : Methods, path : Paths, origin : Origins, body : RequestBodies]
NoRequest ==
    [method |-> "", path |-> "", origin |-> NoHeader, body |-> InvalidJsonBody]

\* What env.ZOHO_OAUTH_WORKER.getAccessToken() can reject with.
TokenErrors ==
    {Thrown(TRUE, "Failed to refresh access token"), Thrown(FALSE, "rpc aborted")}
AccessTokens == {"1000.abc"}

\* What the outbound fetch to the helpdesk can reject with.
NetworkErrors == {Thrown(TRUE, "Network connection lost")}

\* What the helpdesk can answer.
DeskStatuses == {200, 204, 400, 401, 500}
DeskValues ==
    { << "id", "1892000000042032" >>,
      << "errorCode", "INVALID_OAUTH", "message", "The OAuth Token is invalid" >> }
DeskBodies ==
    {[kind |-> "json", value |-> v, compact |-> c] : v \in DeskValues, c \in BOOLEAN}
      \cup {TextBody("<html>502 Bad Gateway</html>"), NullBody}
DeskReplies ==
    {r \in [status : DeskStatuses, body : DeskBodies] :
        NullBodyStatus(r.status) => r.body = NullBody}
NoReply == [status |-> 0, body |-> NullBody]

\* The outbound POST to https://<ZOHO_DESK_DOMAIN>/api/v1/tickets
DeskRequest(auth, subj, mail, descr, first, last, dept) ==
    [authorization |-> auth, subject |-> subj, email |-> mail,
     description |-> descr, firstName |-> first, lastName |-> last,
     departmentId |-> dept]
NoDeskRequest == DeskRequest("", "", "", "", "", "", "")

-----------------------------------------------------------------------------
(* Pure functions of the handler *)

\* Array.prototype.join
RECURSIVE Join(_, _)
Join(arr, sep) ==
    IF Len(arr) = 0 THEN ""
    ELSE IF Len(arr) = 1 THEN arr[1]
    ELSE arr[1] \o sep \o Join(Tail(arr), sep)

\* A plausible slip: the order number is pushed whether or not it is set.
createDetailedDescriptionUnguarded(ticketData) ==
    Join(<< "<div><strong>Order Number:</strong>"
              \o (IF ticketData.orderNumber = NoHeader THEN "undefined"
                  ELSE ticketData.orderNumber) \o "</div>",
            "<div><strong>Detail:</strong> " \o ticketData.details \o "</div>" >>,
         "<br/>")

\* src/src/index.ts:324-333 (and 148-157)
createDetailedDescription(ticketData) ==
    LET descriptionArray ==
            (IF Truthy(ticketData.orderNumber)
             THEN << "<div><strong>Order Number:</strong>"
                       \o ticketData.orderNumber \o "</div>" >>
             ELSE << >>)
            \o << "<div><strong>Detail:</strong> " \o ticketData.details \o "</div>" >>
    IN  Join(descriptionArray, "<br/>")

\* src/unnamed/part_000:72-74
plainDescription(ticketData) ==
    LET orderNumberString ==
            IF Truthy(ticketData.orderNumber)
            THEN "Order number: " \o ticketData.orderNumber \o " \n\n"
            ELSE ""
    IN  orderNumberString \o ticketData.details

\* The description a revision sends.
ticketDescription(rev, ticketData) ==
    IF rev = "waitUntil" THEN plainDescription(ticketData)
    ELSE createDetailedDescription(ticketData)

\* The subject a revision sends.
ticketSubject(rev, ticketData) ==
    IF rev = "waitUntil"
    THEN ticketData.subject \o " - " \o ticketData.name
    ELSE ticketData.store \o " | " \o ticketData.subject \o " | " \o ticketData.name

\* A plausible slip: the fallback origin is used whatever the request says.
withCorsHeadersIgnoringOrigin(rev, request, response) ==
    IF rev = "waitUntil" THEN response
    ELSE [response EXCEPT !.acao = ALLOWED_ORIGINS[1]]

\* src/src/index.ts:202-216 (origin list), 34-42 (fixed origin); the waitUntil
\* revision has no such function and its responses leave as they are built.
withCorsHeaders(rev, request, response) ==
    IF rev = "originList"
    THEN LET requestOrigin == request.origin
         IN  IF Truthy(requestOrigin) /\ Includes(ALLOWED_ORIGINS, requestOrigin)
             THEN [response EXCEPT !.acao = requestOrigin]
             ELSE [response EXCEPT !.acao = ALLOWED_ORIGINS[1]]
    ELSE IF rev = "fixedOrigin"
    THEN [response EXCEPT !.acao = ALLOWED_ORIGIN]
    ELSE response

\* A plausible slip: the preflight answer is a 200 without the cache window.
preflightResponseNoCache(rev, request) ==
    withCorsHeaders(rev, request,
        [Resp(200, NullBody, NoHeader) EXCEPT
            !.acao = ALLOWED_ORIGINS[1],
            !.allowMethods = "POST, OPTIONS",
            !.allowHeaders = "Content-Type"])

\* src/src/index.ts:223-234 (origin list), 49-59 (fixed origin)
preflightResponse(rev, request) ==
    LET optionsResp ==
            [Resp(204, NullBody, NoHeader) EXCEPT
                !.acao = IF rev = "originList" THEN ALLOWED_ORIGINS[1] ELSE ALLOWED_ORIGIN,
                !.allowMethods = "POST, OPTIONS",
                !.allowHeaders = "Content-Type",
                !.maxAge = "86400"]
    IN  IF rev = "originList" THEN withCorsHeaders(rev, request, optionsResp)
        ELSE optionsResp

\* The 202 acknowledgement of fetch.
AckBody ==
    JsonStringify(<< "status", "processing", "message", "Request received" >>)
ackResponse(rev, request) ==
    withCorsHeaders(rev, request, Resp(202, AckBody, "application/json"))

notFoundResponse(rev, request) ==
    withCorsHeaders(rev, request, Resp(404, TextBody("Not found"), NoHeader))

methodNotAllowedResponse(rev, request) ==
    LET r == Resp(405, TextBody("Method not allowed"), NoHeader)
    IN  IF rev = "originList" THEN withCorsHeaders(rev, request, r) ELSE r

\* The 500 both catch blocks build from what was thrown.
errorResponse(rev, request, error) ==
    withCorsHeaders(rev, request,
        Resp(500, JsonStringify(<< "error", ErrorMessage(error) >>), "application/json"))

-----------------------------------------------------------------------------
(* How a try block or a whole async function ends *)

Returned(r) == [kind |-> "return", response |-> r, error |-> NoThrown]
Raised(e) == [kind |-> "throw", response |-> NoResponse, error |-> e]

\* A plausible slip: the handler has no catch block and the error propagates.
handleTicketCreationNoCatch(rev, request, error) == Raised(error)

\* src/src/index.ts:312-320 (136-144; src/unnamed/part_000:105-112)
handleTicketCreationCatch(rev, request, error) ==
    Returned(errorResponse(rev, request, error))

\* src/src/index.ts:249-257 (74-82; src/unnamed/part_000:44-51)
fetchCatch(rev, request, error) ==
    Returned(errorResponse(rev, request, error))

\* The end of a try block of handleTicketCreation: what it returned, or what
\* its catch block makes of what it threw.
handlerTry(rev, request, ending) ==
    IF ending.kind = "throw"
    THEN handleTicketCreationCatch(rev, request, ending.error)
    ELSE ending

\* A plausible change: a failure status of the helpdesk is thrown as an error.
relayResponseThrowOnFailure(rev, request, reply) ==
    LET responseData == JsonParse(reply.body)
    IN  IF reply.status < 200 \/ reply.status > 299
        THEN Raised(Thrown(TRUE, "Failed to create ticket"))
        ELSE Returned(withCorsHeaders(rev, request,
                 Resp(reply.status, JsonStringify(responseData), "application/json")))

\* src/src/index.ts:303-310 (127-134; src/unnamed/part_000:97-103), once
\* ticketResponse.json() has resolved.
relayResponse(rev, request, reply) ==
    LET responseData == JsonParse(reply.body)
        body == JsonStringify(responseData)
    IN  IF ResponseCtorThrows(reply.status, body)
        THEN Raised(ResponseCtorError(reply.status, body))
        ELSE Returned(withCorsHeaders(rev, request,
                 Resp(reply.status, body, "application/json")))

\* src/src/index.ts:279-301 (103-125; src/unnamed/part_000:72-95): the payload
\* of the outbound POST. Reading a field of null throws a TypeError.
buildDeskRequest(rev, ticketData, accessToken) ==
    DeskRequest("Zoho-oauthtoken " \o accessToken,
                ticketSubject(rev, ticketData),
                ticketData.email,
                ticketDescription(rev, ticketData),
                ticketData.name,
                ticketData.name,
                ticketData.departmentId)

-----------------------------------------------------------------------------
(* State *)

VARIABLES
    revision,     \* which revision of the handler is deployed
    served,       \* requests received so far
    request,      \* the request being served
    fpc,          \* fetch: "idle", "awaitHandler", "returned", "rejected"
    response,     \* the response fetch returned to the caller
    hpc,          \* handleTicketCreation: "none", "parsing", "awaitToken",
                  \*   "awaitPost", "awaitReplyJson", "done", "rejected"
    outcome,      \* the response handleTicketCreation returned
    herror,       \* what handleTicketCreation threw, if it rejected
    deskRequest,  \* the outbound POST to the helpdesk, once issued
    deskReply,    \* the helpdesk's answer, once received
    events        \* what happened for this request, in order

vars ==
    << revision, served, request, fpc, response, hpc, outcome, herror,
       deskRequest, deskReply, events >>

Init ==
    /\ revision \in Revisions
    /\ served = 0
    /\ request = NoRequest
    /\ fpc = "idle"
    /\ response = NoResponse
    /\ hpc = "none"
    /\ outcome = NoResponse
    /\ herror = NoThrown
    /\ deskRequest = NoDeskRequest
    /\ deskReply = NoReply
    /\ events = << >>

\* The worker takes the next request once the last one is answered and its
\* ticket handling has settled.
CanReceive ==
    /\ served < MaxRequests
    /\ fpc \in {"idle", "returned", "rejected"}
    /\ hpc \in {"none", "done", "rejected"}

\* The handler has settled with `ending`.
Settle(ending) ==
    /\ hpc' = IF ending.kind = "return" THEN "done" ELSE "rejected"
    /\ outcome' = ending.response
    /\ herror' = ending.error

\* src/src/index.ts:262-272 (87-96; src/unnamed/part_000:56-65): the call of
\* handleTicketCreation runs to its first await, request.json().
handleTicketCreationEntry(rev, req) ==
    IF req.method /= "POST"
    THEN [hpc |-> "done", outcome |-> methodNotAllowedResponse(rev, req)]
    ELSE [hpc |-> "parsing", outcome |-> NoResponse]

-----------------------------------------------------------------------------
(* fetch *)

\* src/src/index.ts:222-234 (48-59): the preflight rule, before the try block.
fetchOptions(req) ==
    /\ CanReceive
    /\ revision \in AwaitRevisions
    /\ req.method = "OPTIONS"
    /\ served' = served + 1
    /\ request' = req
    /\ fpc' = "returned"
    /\ response' = preflightResponse(revision, req)
    /\ hpc' = "none"
    /\ outcome' = NoResponse
    /\ herror' = NoThrown
    /\ deskRequest' = NoDeskRequest
    /\ deskReply' = NoReply
    /\ events' = << "respond" >>
    /\ UNCHANGED revision

\* src/src/index.ts:247-248 (72-73; src/unnamed/part_000:43)
fetchNotFound(req) ==
    /\ CanReceive
    /\ revision \in AwaitRevisions => req.method /= "OPTIONS"
    /\ req.path /= "/tickets"
    /\ served' = served + 1
    /\ request' = req
    /\ fpc' = "returned"
    /\ response' = notFoundResponse(revision, req)
    /\ hpc' = "none"
    /\ outcome' = NoResponse
    /\ herror' = NoThrown
    /\ deskRequest' = NoDeskRequest
    /\ deskReply' = NoReply
    /\ events' = << "respond" >>
    /\ UNCHANGED revision

\* src/unnamed/part_000:35-41: the ticket handling is started and handed to
\* ctx.waitUntil, and the acknowledgement is returned in the same turn.
fetchTicketsWaitUntil(req) ==
    /\ CanReceive
    /\ revision = "waitUntil"
    /\ req.path = "/tickets"
    /\ LET h == handleTicketCreationEntry(revision, req)
       IN  /\ hpc' = h.hpc
           /\ outcome' = h.outcome
    /\ served' = served + 1
    /\ request' = req
    /\ fpc' = "returned"
    /\ response' = ackResponse(revision, req)
    /\ herror' = NoThrown
    /\ deskRequest' = NoDeskRequest
    /\ deskReply' = NoReply
    /\ events' = << "handler_called", "respond" >>
    /\ UNCHANGED revision

\* src/src/index.ts:238-239 (63-64): the ticket handling is started and awaited.
fetchTicketsAwait(req) ==
    /\ CanReceive
    /\ revision \in AwaitRevisions
    /\ req.method /= "OPTIONS"
    /\ req.path = "/tickets"
    /\ LET h == handleTicketCreationEntry(revision, req)
       IN  /\ hpc' = h.hpc
           /\ outcome' = h.outcome
    /\ served' = served + 1
    /\ request' = req
    /\ fpc' = "awaitHandler"
    /\ response' = NoResponse
    /\ herror' = NoThrown
    /\ deskRequest' = NoDeskRequest
    /\ deskReply' = NoReply
    /\ events' = << "handler_called" >>
    /\ UNCHANGED revision

\* src/src/index.ts:239-257 (64-82): handleTicketCreation has settled; its
\* result is dropped and the acknowledgement returned, or the catch block
\* answers what it threw.
fetchResumes ==
    /\ fpc = "awaitHandler"
    /\ hpc \in {"done", "rejected"}
    /\ LET ending ==
               IF hpc = "rejected" THEN fetchCatch(revision, request, herror)
               ELSE Returned(ackResponse(revision, request))
       IN  /\ fpc' = IF ending.kind = "return" THEN "returned" ELSE "rejected"
           /\ response' = ending.response
    /\ events' = Append(events, "respond")
    /\ UNCHANGED << revision, served, request, hpc, outcome, herror,
                    deskRequest, deskReply >>

-----------------------------------------------------------------------------
(* handleTicketCreation, from one await to the next *)

\* src/src/index.ts:272-276 (96-100; src/unnamed/part_000:65-69):
\* request.json() resolved; getAccessToken() is called.
requestJsonResolves ==
    /\ hpc = "parsing"
    /\ request.body.kind /= "invalid"
    /\ hpc' = "awaitToken"
    /\ events' = events \o << "parse_ok", "token_call" >>
    /\ UNCHANGED << revision, served, request, fpc, response, outcome, herror,
                    deskRequest, deskReply >>

\* src/src/index.ts:272, 312-320 (96, 136-144; src/unnamed/part_000:65, 105-112):
\* request.json() rejected with a SyntaxError.
requestJsonRejects ==
    /\ hpc = "parsing"
    /\ request.body.kind = "invalid"
    /\ Settle(handlerTry(revision, request,
                  Raised(Thrown(TRUE, "SyntaxError: Unexpected token in JSON"))))
    /\ events' = Append(events, "parse_err")
    /\ UNCHANGED << revision, served, request, fpc, response, deskRequest, deskReply >>

\* A plausible slip: the POST is issued although no token was obtained.
getAccessTokenRejectsPostsAnyway(error) ==
    /\ hpc = "awaitToken"
    /\ request.body.kind = "object"
    /\ hpc' = "awaitPost"
    /\ deskRequest' = buildDeskRequest(revision, request.body, "undefined")
    /\ events' = events \o << "token_err", "post_call" >>
    /\ UNCHANGED << revision, served, request, fpc, response, outcome, herror,
                    deskReply >>

\* src/src/index.ts:276, 312-320 (100, 136-144; src/unnamed/part_000:69, 105-112):
\* getAccessToken() rejected.
getAccessTokenRejects(error) ==
    /\ hpc = "awaitToken"
    /\ Settle(handlerTry(revision, request, Raised(error)))
    /\ events' = Append(events, "token_err")
    /\ UNCHANGED << revision, served, request, fpc, response, deskRequest, deskReply >>

\* src/src/index.ts:276-301 (100-125; src/unnamed/part_000:69-95):
\* getAccessToken() resolved; the description and the subject are built and the
\* POST to the helpdesk is issued.
getAccessTokenResolves(accessToken) ==
    /\ hpc = "awaitToken"
    /\ request.body.kind = "object"
    /\ hpc' = "awaitPost"
    /\ deskRequest' = buildDeskRequest(revision, request.body, accessToken)
    /\ events' = events \o << "token_ok", "post_call" >>
    /\ UNCHANGED << revision, served, request, fpc, response, outcome, herror,
                    deskReply >>

\* src/src/index.ts:279, 327, 312-320 (103, 151; src/unnamed/part_000:72):
\* getAccessToken() resolved but the body was the JSON value null, so reading
\* its first field throws a TypeError before any POST is issued.
getAccessTokenResolvesNullData(accessToken) ==
    /\ hpc = "awaitToken"
    /\ request.body.kind = "jsonNull"
    /\ Settle(handlerTry(revision, request,
                  Raised(Thrown(TRUE, "TypeError: Cannot read properties of null"))))
    /\ events' = events \o << "token_ok", "build_err" >>
    /\ UNCHANGED << revision, served, request, fpc, response, deskRequest, deskReply >>

\* src/src/index.ts:283-303 (107-127; src/unnamed/part_000:77-97):
\* the helpdesk answered; ticketResponse.json() is called.
deskFetchResolves(reply) ==
    /\ hpc = "awaitPost"
    /\ hpc' = "awaitReplyJson"
    /\ deskReply' = reply
    /\ events' = Append(events, "post_ok")
    /\ UNCHANGED << revision, served, request, fpc, response, outcome, herror,
                    deskRequest >>

\* src/src/index.ts:283, 312-320 (107, 136-144; src/unnamed/part_000:77, 105-112):
\* the outbound fetch rejected (network error).
deskFetchRejects(error) ==
    /\ hpc = "awaitPost"
    /\ Settle(handlerTry(revision, request, Raised(error)))
    /\ events' = Append(events, "post_err")
    /\ UNCHANGED << revision, served, request, fpc, response, deskRequest, deskReply >>

\* src/src/index.ts:303-310 (127-134; src/unnamed/part_000:97-103):
\* ticketResponse.json() resolved; the helpdesk's answer is rebuilt and returned.
replyJsonResolves ==
    /\ hpc = "awaitReplyJson"
    /\ JsonParses(deskReply.body)
    /\ Settle(handlerTry(revision, request,
                  relayResponse(revision, request, deskReply)))
    /\ events' = Append(events, "reply_json_ok")
    /\ UNCHANGED << revision, served, request, fpc, response, deskRequest, deskReply >>

\* src/src/index.ts:303, 312-320 (127, 136-144; src/unnamed/part_000:97, 105-112):
\* ticketResponse.json() rejected: the answer was not JSON.
replyJsonRejects ==
    /\ hpc = "awaitReplyJson"
    /\ ~JsonParses(deskReply.body)
    /\ Settle(handlerTry(revision, request,
                  Raised(Thrown(TRUE, "SyntaxError: Unexpected end of JSON input"))))
    /\ events' = Append(events, "reply_json_err")
    /\ UNCHANGED << revision, served, request, fpc, response, deskRequest, deskReply >>

-----------------------------------------------------------------------------
(* Specification *)

Next ==
    \/ \E req \in Requests : fetchOptions(req)
    \/ \E req \in Requests : fetchNotFound(req)
    \/ \E req \in Requests : fetchTicketsWaitUntil(req)
    \/ \E req \in Requests : fetchTicketsAwait(req)
    \/ fetchResumes
    \/ requestJsonResolves
    \/ requestJsonRejects
    \/ \E accessToken \in AccessTokens : getAccessTokenResolves(accessToken)
    \/ \E accessToken \in AccessTokens : getAccessTokenResolvesNullData(accessToken)
    \/ \E error \in TokenErrors : getAccessTokenRejects(error)
    \/ \E reply \in DeskReplies : deskFetchResolves(reply)
    \/ \E error \in NetworkErrors : deskFetchRejects(error)
    \/ replyJsonResolves
    \/ replyJsonRejects

Spec == Init /\ [][Next]_vars

-----------------------------------------------------------------------------
(* Vocabulary of the properties *)

Responded == fpc = "returned"
HandlerSettled == hpc \in {"done", "rejected"}
HandlerRunning == hpc \in {"parsing", "awaitToken", "awaitPost", "awaitReplyJson"}
Happened(e) == \E i \in DOMAIN events : events[i] = e
Count(e) == Cardinality({i \in DOMAIN events : events[i] = e})
Before(a, i) == \E j \in DOMAIN events : j < i /\ events[j] = a

OutboundCalls == {"token_call", "post_call"}
Completions == {"token_ok", "token_err", "post_ok", "post_err"}
Failures == {"parse_err", "token_err", "build_err", "post_err", "reply_json_err"}

IsTicketPost == request.method = "POST" /\ request.path = "/tickets"

\* One step of a request already received.
Progress ==
    \/ fetchResumes
    \/ requestJsonResolves
    \/ requestJsonRejects
    \/ \E accessToken \in AccessTokens : getAccessTokenResolves(accessToken)
    \/ \E accessToken \in AccessTokens : getAccessTokenResolvesNullData(accessToken)
    \/ \E error \in TokenErrors : getAccessTokenRejects(error)
    \/ \E reply \in DeskReplies : deskFetchResolves(reply)
    \/ \E error \in NetworkErrors : deskFetchRejects(error)
    \/ replyJsonResolves
    \/ replyJsonRejects

ErrorBody(msg) == JsonStringify(<< "error", msg >>)

HtmlDescription(ticketData) ==
    IF Truthy(ticketData.orderNumber)
    THEN "<div><strong>Order Number:</strong>" \o ticketData.orderNumber
            \o "</div><br/><div><strong>Detail:</strong> " \o ticketData.details
            \o "</div>"
    ELSE "<div><strong>Detail:</strong> " \o ticketData.details \o "</div>"

-----------------------------------------------------------------------------
(* Properties *)

\* C1: every request to /tickets whose method is neither POST nor OPTIONS is
\* answered by fetch with status 405.
C1_NonPostAnswered405 ==
    (Responded /\ request.path = "/tickets"
        /\ request.method \notin {"POST", "OPTIONS"})
    => response.status = 405

\* C2: when getAccessToken fails, no POST to the helpdesk is issued for the
\* request, and the response to the caller (the outcome of the background task
\* under ctx.waitUntil) has status 500.
C2_TokenFailureReports500 ==
    (Happened("token_err") /\ Responded /\ HandlerSettled)
    => /\ ~Happened("post_call")
       /\ IF revision = "waitUntil" THEN outcome.status = 500
          ELSE response.status = 500

\* C3: where fetch awaits handleTicketCreation, the response to a POST /tickets
\* that reached the helpdesk has the helpdesk's status and its JSON body.
C3_AwaitedResponseMirrorsHelpdesk ==
    (revision \in AwaitRevisions /\ Responded /\ IsTicketPost
        /\ Happened("reply_json_ok"))
    => /\ response.status = deskReply.status
       /\ response.body.kind = "json"
       /\ response.body.value = JsonParse(deskReply.body)

\* C4: a 202 acknowledgement of a /tickets request is returned before any
\* downstream call (token request, helpdesk POST) has completed.
C4_AckBeforeDownstreamCompletes ==
    (Responded /\ request.path = "/tickets" /\ response.status = 202)
    => \A i \in DOMAIN events :
          events[i] = "respond" => \A c \in Completions : ~Before(c, i)

\* C5 as stated: every OPTIONS request, whatever its path, is answered 204 with
\* a non-empty Access-Control-Allow-Origin and Access-Control-Max-Age 86400,
\* and causes no token request and no helpdesk POST.
C5_OptionsAlwaysPreflight ==
    (served > 0 /\ request.method = "OPTIONS")
    => /\ \A c \in OutboundCalls : ~Happened(c)
       /\ Responded =>
            /\ response.status = 204
            /\ Truthy(response.acao)
            /\ response.maxAge = "86400"

\* C5 amended: in the two revisions of src/src/index.ts every OPTIONS request
\* is answered 204 with a non-empty Access-Control-Allow-Origin and
\* Access-Control-Max-Age 86400; the waitUntil revision has no preflight rule
\* and answers OPTIONS with 202 on /tickets and 404 elsewhere, without CORS
\* headers; in no revision does an OPTIONS request cause an outbound call.
C5_OptionsPreflightWhereCors ==
    (served > 0 /\ request.method = "OPTIONS")
    => /\ \A c \in OutboundCalls : ~Happened(c)
       /\ (Responded /\ revision \in AwaitRevisions) =>
            /\ response.status = 204
            /\ Truthy(response.acao)
            /\ response.maxAge = "86400"
       /\ (Responded /\ revision = "waitUntil") =>
            /\ response.status = IF request.path = "/tickets" THEN 202 ELSE 404
            /\ response.acao = NoHeader
            /\ response.maxAge = NoHeader

C5_Witness ==
    /\ Responded
    /\ revision = "originList"
    /\ request.method = "OPTIONS"
    /\ request.path = "/health"
    /\ request.origin = "https://evil.example"
    /\ response.status = 204
    /\ response.acao = ALLOWED_ORIGINS[1]

\* C6: in the revisions that have a CORS responder, every response that leaves
\* fetch carries Access-Control-Allow-Origin equal to the request's Origin when
\* that is an entry of the allow-list, and equal to the first entry otherwise.
C6_AllowOriginEchoOrFirst ==
    (Responded /\ revision \in AwaitRevisions)
    => IF InList(request.origin, AllowList(revision))
       THEN response.acao = request.origin
       ELSE response.acao = AllowList(revision)[1]

C6_Witness ==
    /\ Responded
    /\ revision = "originList"
    /\ response.status = 202
    /\ request.origin = "https://www.eliquid.com"
    /\ response.acao = "https://www.eliquid.com"

\* C7: no exception escapes: fetch never rejects and the ticket handling never
\* rejects, whatever the body, the token provider and the helpdesk do; a
\* request in progress can always take its next step, and a request is
\* answered with exactly one response.
C7_NoExceptionEscapes ==
    /\ fpc /= "rejected"
    /\ hpc /= "rejected"
    /\ (fpc = "awaitHandler" \/ HandlerRunning) => ENABLED Progress
    /\ Count("respond") = IF Responded THEN 1 ELSE 0
    /\ Responded => response.status \in {202, 204, 404, 500}
    /\ (served > 0 /\ fpc /= "awaitHandler") => Responded

C7_Witness ==
    /\ revision = "waitUntil"
    /\ Responded
    /\ Happened("post_err")
    /\ hpc = "done"
    /\ outcome.status = 500
    /\ outcome.body = ErrorBody("Network connection lost")

\* C8 as stated: a failure status of the helpdesk makes the outcome a 500 with
\* an error field; only a success status is relayed with the helpdesk's body.
C8_FailureStatusBecomes500 ==
    (hpc = "done" /\ Happened("reply_json_ok"))
    => IF deskReply.status \in 200..299
       THEN /\ outcome.status = deskReply.status
            /\ outcome.body = JsonStringify(JsonParse(deskReply.body))
       ELSE /\ outcome.status = 500
            /\ outcome.body.value[1] = "error"

\* C8 amended: when the helpdesk's reply parses as JSON, the outcome carries
\* the helpdesk's status, success or failure alike, and the reply's JSON value
\* re-serialised; the outcome is a 500 whose body is {error: message} exactly
\* when something was thrown (body parse, token provider, null ticket data,
\* network error, non-JSON reply).
C8_StatusRelayedWhateverItIs ==
    /\ (hpc = "done" /\ Happened("reply_json_ok")) =>
          /\ outcome.status = deskReply.status
          /\ outcome.body = JsonStringify(JsonParse(deskReply.body))
          /\ \A f \in Failures : ~Happened(f)
    /\ (hpc = "done" /\ \E f \in Failures : Happened(f)) =>
          /\ outcome.status = 500
          /\ outcome.body.kind = "json"
          /\ Len(outcome.body.value) = 2
          /\ outcome.body.value[1] = "error"
          /\ ~Happened("reply_json_ok")

C8_Witness ==
    /\ hpc = "done"
    /\ Happened("reply_json_ok")
    /\ deskReply.status = 401
    /\ ~deskReply.body.compact
    /\ outcome.status = 401
    /\ outcome.body.value[1] = "errorCode"

\* C9 as stated: the description sent to the helpdesk is the Order Number line,
\* the separator and the Detail line when an order number is present, and the
\* single Detail line otherwise.
C9_DescriptionIsHtml ==
    Happened("post_call")
    => deskRequest.description = HtmlDescription(request.body)

\* C9 amended: that holds in the two revisions of src/src/index.ts; the
\* waitUntil revision sends plain text: "Order number: <n> \n\n" followed by
\* the details when an order number is present, the details alone otherwise.
C9_DescriptionPerRevision ==
    Happened("post_call")
    => IF revision \in AwaitRevisions
       THEN deskRequest.description = HtmlDescription(request.body)
       ELSE deskRequest.description =
              IF Truthy(request.body.orderNumber)
              THEN "Order number: " \o request.body.orderNumber \o " \n\n"
                      \o request.body.details
              ELSE request.body.details

C9_Witness ==
    /\ revision = "originList"
    /\ Happened("post_call")
    /\ request.body.orderNumber = NoHeader
    /\ deskRequest.description = "<div><strong>Detail:</strong> item arrived broken</div>"

\* C10: per request the token provider is called at most once and only after
\* the body parsed, the helpdesk POST is issued at most once and only after a
\* token was obtained, no outbound call follows a failure, and a request that
\* is not POST /tickets causes no outbound call.
C10_CallsOrderedAtMostOnce ==
    /\ Count("token_call") <= 1
    /\ Count("post_call") <= 1
    /\ \A i \in DOMAIN events :
          /\ events[i] = "token_call" => Before("parse_ok", i)
          /\ events[i] = "post_call" => Before("token_ok", i) /\ Before("token_call", i)
          /\ events[i] \in OutboundCalls => \A f \in Failures : ~Before(f, i)
    /\ ~IsTicketPost => \A c \in OutboundCalls : ~Happened(c)
    /\ Happened("post_call") <=> deskRequest /= NoDeskRequest

C10_Witness ==
    /\ IsTicketPost
    /\ hpc = "done"
    /\ events[Len(events)] = "reply_json_ok"
    /\ Count("token_call") = 1
    /\ Count("post_call") = 1
    /\ deskRequest.authorization = "Zoho-oauthtoken 1000.abc"

=============================================================================
